---- MODULE Spec2Model ----
(***************************************************************************)
(* A model of src/src/Encoder.ts: the Encoder combinators as an evaluator  *)
(* over JavaScript values, and the lazy cell (lazy + memoize) as state.    *)
(*                                                                         *)
(* An encoder is the tree of combinator calls that built it; encoding is   *)
(* Encode(e, a, st), which gives the output (or the TypeError the call     *)
(* throws), the direct child invocations made, and the lazy cell after.    *)
(***************************************************************************)
EXTENDS Integers, Sequences, FiniteSets, TLC

\* ------------------------------------------------------------------ bounds

\* Numbers are 0..MaxNum.
MaxNum == 1
\* Arrays given to array(...) and tuple(...) have at most MaxLen elements.
MaxLen == 2
\* Nested lists given to the recursive list schema have at most MaxDepth cells.
MaxDepth == 3
\* At most MaxCalls encode calls are made on one lazy encoder.
MaxCalls == 3
\* The builder re-enters its own lazy encoder at most MaxReentry times.
MaxReentry == 2

\* ------------------------------------------------------- JavaScript values

Null == <<"null">>
Undefined == <<"undefined">>
Num(n) == <<"number", n>>
Str(s) == <<"string", s>>
Obj(f) == <<"object", f>>
Arr(s) == <<"array", s>>
\* The outcome of a call that throws (reading a property of null or undefined,
\* calling what is not a function).
TypeError == <<"TypeError">>

EmptyRecord == [k \in {} |-> Null]

IsObj(a) == a[1] = "object"
IsArr(a) == a[1] = "array"
IsNullish(a) == a = Null \/ a = Undefined

\* a[k] for a string key k that names no built-in property.
Get(a, k) ==
  IF IsNullish(a) THEN TypeError
  ELSE IF IsObj(a) /\ k \in DOMAIN a[2] THEN a[2][k]
  ELSE Undefined

\* as[i] for a zero-based index i.
Index(as, i) ==
  IF IsNullish(as) THEN TypeError
  ELSE IF IsArr(as) /\ i + 1 \in DOMAIN as[2] THEN as[2][i + 1]
  ELSE Undefined

\* k in a throws unless a is an object (arrays included).
InThrows(a) == ~(IsObj(a) \/ IsArr(a))

\* k in a, for an object a and a string key k that names no built-in property.
In(k, a) == IsObj(a) /\ k \in DOMAIN a[2]

\* o[k] = v
Put(o, k, v) == [x \in (DOMAIN o) \cup {k} |-> IF x = k THEN v ELSE o[x]]

Digits == <<"0", "1", "2", "3", "4", "5", "6", "7", "8", "9">>

\* The property key a value is converted to when it indexes an object.
ToPropertyKey(v) ==
  CASE v[1] = "string" -> v[2]
    [] v[1] = "number" -> Digits[v[2] + 1]
    [] v = Undefined -> "undefined"
    [] v = Null -> "null"
    [] IsArr(v) -> ""
    [] OTHER -> "[object Object]"

\* ------------------------------------------------------------------ encoders

\* A record of encoders (properties, members) is the sequence of its
\* <<key, encoder>> pairs in insertion order, the order for..in visits them.
Keys(p) == {p[i][1] : i \in DOMAIN p}

HasKey(p, k) == k \in Keys(p)

\* Property names every object inherits from Object.prototype.
Inherited == {"constructor", "toString"}

\* p[k]: the encoder under an own key, what Object.prototype holds under an
\* inherited one (no encoder: it has no encode), undefined otherwise.
Lookup(p, k) ==
  IF HasKey(p, k) THEN p[CHOOSE i \in DOMAIN p : p[i][1] = k][2]
  ELSE IF k \in Inherited THEN <<"inherited", k>>
  ELSE Undefined

\* m.encode(...) throws: m is undefined, or m.encode is.
NoEncoder(m) == m = Undefined \/ m[1] = "inherited"

\* A user-supplied encoder { encode: f }, named by its function.
Encoder(name) == <<"encoder", name>>

\* What the user-supplied functions compute; each is total.
Apply(name, a) ==
  CASE name = "succ" -> IF a[1] = "number" THEN Num((a[2] + 1) % (MaxNum + 1)) ELSE a
    [] name = "orZero" -> IF IsNullish(a) THEN Num(0) ELSE a
    [] name = "box" -> Arr(<<a>>)

identity(a) == a

id == <<"id">>
nullable(or) == <<"nullable", or>>
type(properties) == <<"type", properties>>
partial(properties) == <<"partial", properties>>
array(items) == <<"array", items>>
tuple(components) == <<"tuple", components>>
sum(tag, members) == <<"sum", tag, members>>
compose_(ab, ea) == <<"compose", ab, ea>>
compose(ea, ab) == compose_(ab, ea)
\* lazy(f): the encoder refers to its cell (f and the cache of get), which
\* is state.
lazy == <<"lazy">>

\* ------------------------------------------------------------ the lazy cell

Unbuilt == <<"unbuilt">>

\* The cell of the one lazy site: f is the encoder the builder returns,
\* cache what memoize has stored, builds the number of times the builder ran,
\* steps the number of encode calls entered.
Cell(f) == [f |-> f, cache |-> Unbuilt, builds |-> 0, steps |-> 0]

\* memoize's steps on the cell: the cache is looked up; on a miss f is
\* called, and what it returns is stored and returned.
cache_has(st) == st.cache # Unbuilt

call_f(st) == [st EXCEPT !.builds = @ + 1]

cache_set(st, b) == [st EXCEPT !.cache = b]

\* get = memoize(f), called with f returning without calling back: the
\* encoder it returns and the cell after.
memoize(st) ==
  IF cache_has(st)
    THEN [b |-> st.cache, st |-> st]
    ELSE [b |-> st.f, st |-> cache_set(call_f(st), st.f)]

\* const get = f: the builder runs on every call and nothing is cached.
lazy_get_unmemoized(st) == [b |-> st.f, st |-> [st EXCEPT !.builds = @ + 1]]

lazy_get(st) == memoize(st)

\* ---------------------------------------------------------------- encoding

\* What an encode call gives: its output (TypeError when it throws), the
\* calls it made to its child encoders, in order, and the lazy cell after.
Ret(out, calls, st) == [out |-> out, calls |-> calls, st |-> st]

RECURSIVE Encode(_, _, _)
RECURSIVE type_loop(_, _, _, _, _, _)
RECURSIVE partial_loop(_, _, _, _, _, _)
RECURSIVE array_map(_, _, _, _, _, _)
RECURSIVE tuple_map(_, _, _, _, _, _)

id_encode(a, st) == Ret(identity(a), <<>>, st)

user_encode(name, a, st) == Ret(Apply(name, a), <<>>, st)

\* a == null: undefined is taken for null too.
nullable_encode_loose(or, a, st) ==
  IF IsNullish(a) THEN Ret(Null, <<>>, st)
  ELSE LET r == Encode(or, a, st) IN Ret(r.out, <<<<or, a>>>>, r.st)

nullable_encode(or, a, st) ==
  IF a = Null THEN Ret(Null, <<>>, st)
  ELSE LET r == Encode(or, a, st) IN Ret(r.out, <<<<or, a>>>>, r.st)

type_loop(properties, i, a, o, calls, st) ==
  IF i > Len(properties) THEN Ret(Obj(o), calls, st)
  ELSE LET k == properties[i][1]
           v == Get(a, k)
       IN IF v = TypeError THEN Ret(TypeError, calls, st)
          ELSE LET r == Encode(properties[i][2], v, st)
                   cs == Append(calls, <<properties[i][2], v>>)
               IN IF r.out = TypeError THEN Ret(TypeError, cs, r.st)
                  ELSE type_loop(properties, i + 1, a, Put(o, k, r.out), cs, r.st)

\* const o = { ...a }: the output starts as a copy of the input.
type_encode_spread(properties, a, st) ==
  type_loop(properties, 1, a, IF IsObj(a) THEN a[2] ELSE EmptyRecord, <<>>, st)

type_encode(properties, a, st) ==
  type_loop(properties, 1, a, EmptyRecord, <<>>, st)

partial_loop(properties, i, a, o, calls, st) ==
  IF i > Len(properties) THEN Ret(Obj(o), calls, st)
  ELSE LET k == properties[i][1]
           v == Get(a, k)
       IN IF v = TypeError \/ InThrows(a) THEN Ret(TypeError, calls, st)
          ELSE IF ~In(k, a) THEN partial_loop(properties, i + 1, a, o, calls, st)
          ELSE IF v = Undefined
            THEN partial_loop(properties, i + 1, a, Put(o, k, Undefined), calls, st)
          ELSE LET r == Encode(properties[i][2], v, st)
                   cs == Append(calls, <<properties[i][2], v>>)
               IN IF r.out = TypeError THEN Ret(TypeError, cs, r.st)
                  ELSE partial_loop(properties, i + 1, a, Put(o, k, r.out), cs, r.st)

\* The properties encoded by type's loop: a missing key comes out undefined
\* and the child encoder sees undefined.
partial_encode_as_type(properties, a, st) ==
  type_loop(properties, 1, a, EmptyRecord, <<>>, st)

partial_encode(properties, a, st) ==
  partial_loop(properties, 1, a, EmptyRecord, <<>>, st)

array_map(items, as, i, os, calls, st) ==
  IF i > Len(as) THEN Ret(Arr(os), calls, st)
  ELSE LET r == Encode(items, as[i], st)
           cs == Append(calls, <<items, as[i]>>)
       IN IF r.out = TypeError THEN Ret(TypeError, cs, r.st)
          ELSE array_map(items, as, i + 1, Append(os, r.out), cs, r.st)

array_encode(items, as, st) ==
  IF IsArr(as) THEN array_map(items, as[2], 1, <<>>, <<>>, st)
  ELSE Ret(TypeError, <<>>, st)

tuple_map(components, as, i, os, calls, st) ==
  IF i > Len(components) THEN Ret(Arr(os), calls, st)
  ELSE LET v == Index(as, i - 1)
       IN IF v = TypeError THEN Ret(TypeError, calls, st)
          ELSE LET r == Encode(components[i], v, st)
                   cs == Append(calls, <<components[i], v>>)
               IN IF r.out = TypeError THEN Ret(TypeError, cs, r.st)
                  ELSE tuple_map(components, as, i + 1, Append(os, r.out), cs, r.st)

\* as.map((a, i) => components[i].encode(a)): the input, not the components,
\* decides the arity.
tuple_encode_over_input(components, as, st) ==
  IF IsArr(as)
    THEN tuple_map(SubSeq(components, 1, Len(as[2])), as, 1, <<>>, <<>>, st)
    ELSE Ret(TypeError, <<>>, st)

tuple_encode(components, as, st) ==
  tuple_map(components, as, 1, <<>>, <<>>, st)

\* members[a[tag]].encode(a[tag]): the member gets the discriminant alone.
sum_encode_tag_only(tag, members, a, st) ==
  LET t == Get(a, tag)
  IN IF t = TypeError THEN Ret(TypeError, <<>>, st)
     ELSE LET m == Lookup(members, ToPropertyKey(t))
          IN IF NoEncoder(m) THEN Ret(TypeError, <<>>, st)
             ELSE LET r == Encode(m, t, st) IN Ret(r.out, <<<<m, t>>>>, r.st)

\* members[a[tag]]?.encode(a): an unknown discriminant gives undefined.
sum_encode_optional(tag, members, a, st) ==
  LET t == Get(a, tag)
  IN IF t = TypeError THEN Ret(TypeError, <<>>, st)
     ELSE LET m == Lookup(members, ToPropertyKey(t))
          IN IF m = Undefined THEN Ret(Undefined, <<>>, st)
             ELSE IF NoEncoder(m) THEN Ret(TypeError, <<>>, st)
             ELSE LET r == Encode(m, a, st) IN Ret(r.out, <<<<m, a>>>>, r.st)

sum_encode(tag, members, a, st) ==
  LET t == Get(a, tag)
  IN IF t = TypeError THEN Ret(TypeError, <<>>, st)
     ELSE LET m == Lookup(members, ToPropertyKey(t))
          IN IF NoEncoder(m) THEN Ret(TypeError, <<>>, st)
             ELSE LET r == Encode(m, a, st) IN Ret(r.out, <<<<m, a>>>>, r.st)

\* get().encode(a), once get() has returned b: the input is returned as it
\* came, b.encode is not called.
lazy_delegate_skipped(b, a, st) == Ret(a, <<>>, st)

\* get().encode(a), once get() has returned b.
lazy_delegate(b, a, st) ==
  LET r == Encode(b, a, st) IN Ret(r.out, <<<<b, a>>>>, r.st)

lazy_encode(a, st) ==
  LET g == lazy_get(st) IN lazy_delegate(g.b, a, g.st)

\* ea.encode(b): the inner encoder is left out.
compose_encode_outer_only(ab, ea, b, st) ==
  LET r == Encode(ea, b, st) IN Ret(r.out, <<<<ea, b>>>>, r.st)

compose_encode(ab, ea, b, st) ==
  LET r1 == Encode(ab, b, st)
  IN IF r1.out = TypeError THEN Ret(TypeError, <<<<ab, b>>>>, r1.st)
     ELSE LET r2 == Encode(ea, r1.out, r1.st)
          IN Ret(r2.out, <<<<ab, b>>, <<ea, r1.out>>>>, r2.st)

\* e.encode(a) with the lazy cell in state st.
Encode(e, a, st) ==
  LET s == [st EXCEPT !.steps = @ + 1]
  IN CASE e[1] = "id" -> id_encode(a, s)
       [] e[1] = "encoder" -> user_encode(e[2], a, s)
       [] e[1] = "nullable" -> nullable_encode(e[2], a, s)
       [] e[1] = "type" -> type_encode(e[2], a, s)
       [] e[1] = "partial" -> partial_encode(e[2], a, s)
       [] e[1] = "array" -> array_encode(e[2], a, s)
       [] e[1] = "tuple" -> tuple_encode(e[2], a, s)
       [] e[1] = "sum" -> sum_encode(e[2], e[3], a, s)
       [] e[1] = "lazy" -> lazy_encode(a, s)
       [] e[1] = "compose" -> compose_encode(e[2], e[3], a, s)

\* ------------------------------------------------------------- the inputs

\* The user-supplied and identity encoders the combinators are applied to.
Leaves == {id, Encoder("succ"), Encoder("orZero"), Encoder("box")}

Nums == {Num(n) : n \in 0..MaxNum}
Prims == {Null, Undefined, Str("a")} \cup Nums

\* The keys a property record declares, and the keys an input object may have
\* ("c" is never declared).
PropKeys == {"a", "b"}
InKeys == {"a", "b", "c"}
FieldVals == {Undefined, Null} \cup Nums

SeqsUpTo(S, n) == UNION {[1..m -> S] : m \in 0..n}

\* Property records over PropKeys: no key twice, either order.
Properties ==
  {p \in SeqsUpTo(PropKeys \X Leaves, Cardinality(PropKeys)) :
     \A i, j \in DOMAIN p : p[i][1] = p[j][1] => i = j}

Objects == {Obj(f) : f \in UNION {[S -> FieldVals] : S \in SUBSET InKeys}}

Arrays == {Arr(s) : s \in SeqsUpTo({Undefined} \cup Nums, MaxLen)}

\* The members of a tagged union on "kind", and its inputs: the tag absent,
\* a member's, no member's, an inherited property's name, undefined or a
\* number.
Variant == type(<<<<"kind", id>>, <<"x", Encoder("succ")>>>>)
Members ==
  {<<<<"a", Variant>>>>, <<<<"a", id>>, <<"b", Variant>>>>,
   <<<<"b", Encoder("box")>>, <<"a", Variant>>>>}
Tagged ==
  {Obj(f) : f \in UNION {[S -> {Str("a"), Str("b"), Str("c"), Str("constructor"),
                                 Undefined, Num(0)}] : S \in SUBSET {"kind"}}}
  \cup {Obj([kind |-> k, x |-> x]) : k \in {Str("a"), Str("b"), Str("c")}, x \in Nums}

\* list = lazy(() => nullable(type({head: id, tail: list})))
ListSchema == nullable(type(<<<<"head", id>>, <<"tail", lazy>>>>))

RECURSIVE List(_)
\* The null-terminated list of d cells.
List(d) ==
  IF d = 0 THEN Null
  ELSE Obj([head |-> Num(d % (MaxNum + 1)), tail |-> List(d - 1)])

Lists == {List(d) : d \in 0..MaxDepth}

\* What the builder of the lazy site may return.
Builders == {ListSchema, nullable(Encoder("succ")), Encoder("box")}

Composable == Leaves \cup {compose_(ab, ea) : ab, ea \in Leaves \ {Encoder("box")}}

\* The inputs an encoder is called on: those of its input type, and the
\* ill-typed ones at its boundary.
InputsFor(e, f) ==
  CASE e[1] \in {"type", "partial"} -> Objects \cup {Null, Num(0)}
    [] e[1] \in {"array", "tuple"} -> Arrays \cup {Null, Num(0)}
    [] e[1] = "sum" -> Tagged \cup {Null}
    [] e[1] = "lazy" -> IF f = ListSchema THEN Lists ELSE Prims
    [] OTHER -> Prims

\* ------------------------------------------------------------------ state

VARIABLES
  enc,     \* the encoder constructed, None before
  cell,    \* the lazy cell of the encoder (f, cache of get, counters)
  n,       \* the number of encode calls made on enc
  arg,     \* the input of the last encode call, None before
  res,     \* its outcome: [out, calls], None before
  stack,   \* the encode calls on the lazy encoder that have not returned
  built,   \* the encoders the builder has returned, in order
  returned \* the [arg, out] of the calls on the lazy encoder that returned

vars == <<enc, cell, n, arg, res, stack, built, returned>>

\* What only a builder that calls back changes.
reentry == <<stack, built, returned>>

None == <<"none">>

NoCell == Cell(None)

NoResult == [out |-> None, calls |-> <<>>]

Init ==
  /\ enc = None
  /\ cell = NoCell
  /\ n = 0
  /\ arg = None
  /\ res = NoResult
  /\ stack = <<>>
  /\ built = <<>>
  /\ returned = {}

\* Each combinator call below returns the encoder in enc; nothing has been
\* encoded yet.

Id ==
  /\ enc = None
  /\ enc' = id
  /\ UNCHANGED <<cell, n, arg, res, reentry>>

Nullable ==
  /\ enc = None
  /\ \E or \in Leaves : enc' = nullable(or)
  /\ UNCHANGED <<cell, n, arg, res, reentry>>

Type ==
  /\ enc = None
  /\ \E properties \in Properties : enc' = type(properties)
  /\ UNCHANGED <<cell, n, arg, res, reentry>>

Partial ==
  /\ enc = None
  /\ \E properties \in Properties : enc' = partial(properties)
  /\ UNCHANGED <<cell, n, arg, res, reentry>>

Array ==
  /\ enc = None
  /\ \E items \in Leaves : enc' = array(items)
  /\ UNCHANGED <<cell, n, arg, res, reentry>>

Tuple ==
  /\ enc = None
  /\ \E components \in SeqsUpTo(Leaves, MaxLen) : enc' = tuple(components)
  /\ UNCHANGED <<cell, n, arg, res, reentry>>

Sum ==
  /\ enc = None
  /\ \E members \in Members : enc' = sum("kind", members)
  /\ UNCHANGED <<cell, n, arg, res, reentry>>

Compose ==
  /\ enc = None
  /\ \E ea, ab \in Composable : enc' = compose(ea, ab)
  /\ UNCHANGED <<cell, n, arg, res, reentry>>

\* lazy(f): get = memoize(f) has an empty cache and f has not run.
Lazy ==
  /\ enc = None
  /\ enc' = lazy
  /\ \E f \in Builders : cell' = Cell(f)
  /\ UNCHANGED <<n, arg, res, reentry>>

\* A stateless encoder gives the same outcome however often it is called, so
\* one call of each is explored; the lazy encoder is called up to MaxCalls times.
CallsOn(e) == IF e = lazy THEN MaxCalls ELSE 1

\* enc.encode(a), run to completion.
EncodeCall ==
  /\ enc # None
  /\ n < CallsOn(enc)
  /\ \E a \in InputsFor(enc, cell.f) :
       LET r == Encode(enc, a, [cell EXCEPT !.steps = 0])
       IN /\ arg' = a
          /\ res' = [out |-> r.out, calls |-> r.calls]
          /\ cell' = r.st
  /\ n' = n + 1
  /\ UNCHANGED <<enc, reentry>>

Next ==
  \/ Id
  \/ Nullable
  \/ Type
  \/ Partial
  \/ Array
  \/ Tuple
  \/ Sum
  \/ Compose
  \/ Lazy
  \/ EncodeCall

Spec == Init /\ [][Next]_vars

\* ------------------------------------------------- a builder that calls back

\* The builder may call encode on the lazy encoder it is building: the call
\* runs inside the builder's, so the calls in progress form a stack and only
\* the innermost advances. Each call is get() -- a cache lookup, on a miss a
\* run of the builder and the store of what it returns -- then .encode(a).

\* What one run of the builder may return: the encoder f or one that gives
\* the same outputs, a fresh object either way.
Variants(f) == {f, compose(id, f)}

Frame(a, st) ==
  IF cache_has(st)
    THEN [arg |-> a, b |-> st.cache, pc |-> "delegate"]
    ELSE [arg |-> a, b |-> None, pc |-> "build"]

\* A call of encode(a) on the lazy encoder starts: get() looks the cache up
\* and on a miss calls the builder.
Begin(a) ==
  /\ n < MaxCalls
  /\ n' = n + 1
  /\ stack' = Append(stack, Frame(a, cell))
  /\ cell' = IF cache_has(cell) THEN cell ELSE call_f(cell)
  /\ UNCHANGED <<enc, arg, res, built, returned>>

\* encode is called from outside.
Enter ==
  /\ enc = lazy
  /\ stack = <<>>
  /\ \E a \in InputsFor(enc, cell.f) : Begin(a)

\* encode is called by the builder, while it runs.
Reenter ==
  /\ enc = lazy
  /\ stack # <<>>
  /\ stack[Len(stack)].pc = "build"
  /\ Len(stack) <= MaxReentry
  /\ \E a \in InputsFor(enc, cell.f) : Begin(a)

\* The builder returns encoder b, which get() stores and returns.
BuilderReturns ==
  /\ stack # <<>>
  /\ stack[Len(stack)].pc = "build"
  /\ \E b \in Variants(cell.f) :
       /\ cell' = cache_set(cell, b)
       /\ built' = Append(built, b)
       /\ stack' = [stack EXCEPT ![Len(stack)] = [@ EXCEPT !.b = b, !.pc = "delegate"]]
  /\ UNCHANGED <<enc, n, arg, res, returned>>

\* .encode(a) on what get() returned, and the call returns.
Delegate ==
  /\ stack # <<>>
  /\ stack[Len(stack)].pc = "delegate"
  /\ LET top == stack[Len(stack)]
         r == lazy_delegate(top.b, top.arg, [cell EXCEPT !.steps = 0])
     IN /\ arg' = top.arg
        /\ res' = [out |-> r.out, calls |-> r.calls]
        /\ cell' = r.st
        /\ returned' = returned \cup {[arg |-> top.arg, out |-> r.out]}
  /\ stack' = SubSeq(stack, 1, Len(stack) - 1)
  /\ UNCHANGED <<enc, n, built>>

NextReentrant ==
  \/ Lazy
  \/ Enter
  \/ Reenter
  \/ BuilderReturns
  \/ Delegate

SpecReentrant == Init /\ [][NextReentrant]_vars

\* ----------------------------------------------------------------- claims

\* e.encode(a) as the lazy cell stands.
Out(e, a) == Encode(e, a, cell).out

Called(kind) == enc[1] = kind /\ n > 0

\* C8: nullable(e).encode(null) is null and e.encode is not invoked; on every
\* other input x, undefined included, e.encode is invoked once, on x, and its
\* result returned.
NullableShortCircuitsNull ==
  Called("nullable") =>
    /\ arg = Null => res.out = Null /\ res.calls = <<>>
    /\ arg # Null => res.out = Out(enc[2], arg) /\ res.calls = <<<<enc[2], arg>>>>

NullableSkipsEncoderWitness ==
  /\ enc = nullable(Encoder("orZero"))
  /\ n > 0
  /\ arg = Null
  /\ res.out = Null
  /\ Out(enc[2], arg) = Num(0)

\* C4: type(properties).encode(a), for an object a, has exactly the declared
\* keys, each k holding properties[k].encode(a[k]); one child call is made per
\* declared key, and an input that agrees with a on the declared keys gives
\* the same output, whatever its other keys hold.
TypeEmitsDeclaredKeys ==
  (Called("type") /\ IsObj(arg)) =>
    LET properties == enc[2]
    IN /\ IsObj(res.out)
       /\ DOMAIN res.out[2] = Keys(properties)
       /\ \A i \in DOMAIN properties :
            res.out[2][properties[i][1]] = Out(properties[i][2], Get(arg, properties[i][1]))
       /\ res.calls =
            [i \in DOMAIN properties |-> <<properties[i][2], Get(arg, properties[i][1])>>]
       /\ \A b \in Objects :
            (\A k \in Keys(properties) : Get(b, k) = Get(arg, k)) => Out(enc, b) = res.out

TypeDropsExtraKeyWitness ==
  /\ enc = type(<<<<"a", Encoder("succ")>>, <<"b", id>>>>)
  /\ n > 0
  /\ arg = Obj([a |-> Num(0), b |-> Null, c |-> Num(1)])
  /\ res.out = Obj([a |-> Num(1), b |-> Null])

\* C3: partial(properties).encode(a), for an object a and each declared key k:
\* k absent from a is absent from the output; k present with undefined is
\* present with undefined and properties[k].encode is not invoked; k present
\* with any other value v (null and 0 included) holds properties[k].encode(v).
PartialKeepsPresence ==
  (Called("partial") /\ IsObj(arg)) =>
    LET properties == enc[2]
        a == arg[2]
        encoded == {i \in DOMAIN properties :
                      properties[i][1] \in DOMAIN a /\ a[properties[i][1]] # Undefined}
    IN /\ IsObj(res.out)
       /\ DOMAIN res.out[2] = Keys(properties) \cap DOMAIN a
       /\ \A i \in DOMAIN properties :
            LET k == properties[i][1]
            IN k \in DOMAIN a =>
                 res.out[2][k] =
                   IF a[k] = Undefined THEN Undefined ELSE Out(properties[i][2], a[k])
       /\ Len(res.calls) = Cardinality(encoded)
       /\ \A j \in DOMAIN res.calls :
            /\ res.calls[j][2] # Undefined
            /\ \E i \in encoded : res.calls[j] = <<properties[i][2], a[properties[i][1]]>>

PartialKeepsUndefinedWitness ==
  /\ enc = partial(<<<<"a", Encoder("orZero")>>, <<"b", Encoder("orZero")>>>>)
  /\ n > 0
  /\ arg = Obj([a |-> Undefined, c |-> Num(0)])
  /\ res.out = Obj([a |-> Undefined])
  /\ res.calls = <<>>

\* C7: array(items).encode(as) has the length of the array as, element i
\* being items.encode(as[i]); tuple(...components).encode(as) has as many
\* elements as there are components, element i being
\* components[i].encode(as[i]), and so the length of as when as has the
\* tuple's arity.
ArrayAndTupleMirrorInput ==
  /\ (Called("array") /\ IsArr(arg)) =>
       /\ IsArr(res.out)
       /\ Len(res.out[2]) = Len(arg[2])
       /\ \A i \in DOMAIN arg[2] : res.out[2][i] = Out(enc[2], arg[2][i])
       /\ res.calls = [i \in DOMAIN arg[2] |-> <<enc[2], arg[2][i]>>]
  /\ (Called("tuple") /\ IsArr(arg)) =>
       /\ IsArr(res.out)
       /\ Len(res.out[2]) = Len(enc[2])
       /\ \A i \in DOMAIN enc[2] : res.out[2][i] = Out(enc[2][i], Index(arg, i - 1))
       /\ Len(arg[2]) = Len(enc[2]) => Len(res.out[2]) = Len(arg[2])

TupleMirrorsInputWitness ==
  /\ enc = tuple(<<Encoder("succ"), Encoder("box")>>)
  /\ n > 0
  /\ arg = Arr(<<Num(0), Num(1)>>)
  /\ res.out = Arr(<<Num(1), Arr(<<Num(1)>>)>>)

\* The discriminant of a is a key of the members.
KnownTag(tag, members, a) ==
  /\ ~IsNullish(a)
  /\ HasKey(members, ToPropertyKey(Get(a, tag)))

\* C5: when a[tag] is a key of members, sum(tag)(members).encode(a) invokes
\* exactly one member encoder, members[a[tag]], on the whole input a, and
\* returns its output.
SumDispatchesOnTag ==
  (Called("sum") /\ KnownTag(enc[2], enc[3], arg)) =>
    LET m == Lookup(enc[3], ToPropertyKey(Get(arg, enc[2])))
    IN /\ res.calls = <<<<m, arg>>>>
       /\ res.out = Out(m, arg)

SumDispatchWitness ==
  /\ enc = sum("kind", <<<<"a", id>>, <<"b", Variant>>>>)
  /\ n > 0
  /\ arg = Obj([kind |-> Str("b"), x |-> Num(0)])
  /\ res.out = Obj([kind |-> Str("b"), x |-> Num(1)])

\* C6: when a[tag] is not a key of members, sum(tag)(members).encode(a)
\* invokes no member encoder and throws instead of returning a value.
SumUnknownTagThrows ==
  (Called("sum") /\ ~IsNullish(arg) /\ ~KnownTag(enc[2], enc[3], arg)) =>
    /\ res.out = TypeError
    /\ res.calls = <<>>

SumUnknownTagWitness ==
  /\ enc = sum("kind", <<<<"a", id>>, <<"b", Variant>>>>)
  /\ n > 0
  /\ arg = Obj([kind |-> Str("c"), x |-> Num(0)])
  /\ res.out = TypeError

\* C2: compose(id, e), compose(e, id) and e give the same output, and so do
\* compose(compose(e1, e2), e3) and compose(e1, compose(e2, e3)), on every
\* input.
ComposeIsCategory ==
  Called("compose") =>
    LET ab == enc[2]
        ea == enc[3]
    IN /\ ea = id => res.out = Out(ab, arg)
       /\ ab = id => res.out = Out(ea, arg)
       /\ ea[1] = "compose" =>
            res.out = Out(compose(ea[3], compose(ea[2], ab)), arg)
       /\ ab[1] = "compose" =>
            res.out = Out(compose(compose(ea, ab[3]), ab[2]), arg)

ComposeAssociatesWitness ==
  /\ enc = compose(Encoder("box"), compose(Encoder("succ"), Encoder("orZero")))
  /\ n > 0
  /\ arg = Null
  /\ res.out = Arr(<<Num(1)>>)

\* C1: constructing lazy(builder) runs the builder zero times; once encode has
\* been called, the builder has run exactly once, every call has delegated to
\* the encoder that run cached, and a built cell stays built, with the same
\* encoder and no further run of the builder.
LazyBuildsOnce ==
  /\ [](enc = lazy =>
          /\ n = 0 => cell.builds = 0 /\ cell.cache = Unbuilt
          /\ n > 0 =>
               /\ cell.builds = 1
               /\ cell.cache = cell.f
               /\ res.calls = <<<<cell.cache, arg>>>>
               /\ res.out = Out(cell.cache, arg))
  /\ [][(enc = lazy /\ cell.cache # Unbuilt) =>
          cell'.cache = cell.cache /\ cell'.builds = cell.builds]_vars

LazyLaterCallWitness ==
  /\ enc = lazy
  /\ cell.f = nullable(Encoder("succ"))
  /\ n = 2
  /\ cell.builds = 1
  /\ arg = Num(0)
  /\ res.out = Num(1)

RECURSIVE Cells(_)
\* The number of cells of a null-terminated list.
Cells(a) == IF IsObj(a) /\ "tail" \in DOMAIN a[2] THEN 1 + Cells(a[2].tail) ELSE 0

\* C9: constructing list = lazy(() => nullable(type({head: id, tail: list})))
\* does not run the builder; list.encode of a null-terminated list of d cells
\* returns the same nested list after 4d + 2 encode calls (lazy and nullable
\* per level, type and id per cell), the builder having run exactly once.
RecursiveListEncodes ==
  (enc = lazy /\ cell.f = ListSchema) =>
    /\ n = 0 => cell.builds = 0
    /\ n > 0 =>
         /\ res.out = arg
         /\ cell.builds = 1
         /\ cell.steps = 4 * Cells(arg) + 2

RecursiveListWitness ==
  /\ enc = lazy
  /\ cell.f = ListSchema
  /\ n = 1
  /\ arg = Obj([head |-> Num(0), tail |-> Obj([head |-> Num(1), tail |-> Null])])
  /\ res.out = arg
  /\ cell.builds = 1

====
